---- MODULE Spec2Model ----
(***************************************************************************)
(* Audio-device lifecycle of the Kataru dictation app (dictate_app.py):    *)
(* MicrophoneManager (scan_devices, get_best_microphone_index,             *)
(* verify_microphone) and the recording start/stop/retry logic of          *)
(* DictationApp, run by two threads: the main (UI run-loop) thread, which  *)
(* runs the rumps timer, the menu callbacks, the sleep/wake observers and  *)
(* every AppHelper.callAfter callback, and the pynput listener thread,     *)
(* which runs on_press -> start_recording and on_release -> stop_recording.*)
(* A device name is looked up as a sequence of one-character strings, so   *)
(* that lower() and the substring test are computed and not assumed.       *)
(* Writes of config.ini are taken to succeed; the callAfter entries that   *)
(* only redraw the menu or post a notification are left out of the queue.  *)
(* Spec follows the device selection of the two threads, with scan_devices *)
(* as one step after its query; ScanSpec follows scan_devices statement by *)
(* statement; PipeSpec follows the audio buffer and the transcription      *)
(* threads; SelSpec and MgrSpec exercise the manager on its own.           *)
(***************************************************************************)
EXTENDS Integers, Sequences, FiniteSets, TLC

(* ------------------------------------------------------------------ *)
(* Values                                                              *)
(* ------------------------------------------------------------------ *)

\* self.current_mic_index = None (before the first scan): a value that is no index
NoneIndex == -2
\* "return -1": no microphone / PortAudio default device
NoDevice == -1
\* MAX_RETRIES in start_recording
MAX_RETRIES == 2

\* bound on the callbacks waiting in the main-thread queue (AppHelper.callAfter):
\* a thread that would enqueue beyond it waits for the run loop to catch up
MaxQueue == 2

UpperChars == <<"A","B","C","D","E","F","G","H","I","J","K","L","M",
                "N","O","P","Q","R","S","T","U","V","W","X","Y","Z">>
LowerChars == <<"a","b","c","d","e","f","g","h","i","j","k","l","m",
                "n","o","p","q","r","s","t","u","v","w","x","y","z">>

\* str.lower() on one character
LowerChar(c) ==
    IF \E i \in DOMAIN UpperChars : UpperChars[i] = c
    THEN LowerChars[CHOOSE i \in DOMAIN UpperChars : UpperChars[i] = c]
    ELSE c

\* str.lower()
Lower(s) == [i \in DOMAIN s |-> LowerChar(s[i])]

\* pattern in name_lower  (substring containment; the empty pattern is in every string)
IsSubstring(p, s) ==
    \E off \in 0..(Len(s) - Len(p)) :
        \A i \in 1..Len(p) : s[off + i] = p[i]

\* the device names of the model, and the characters of each
MacBookMic == "MacBook Mic"
YetiX      == "Yeti X"
AirPodsPro == "AirPods Pro"

Chars(name) ==
    CASE name = MacBookMic -> <<"M","a","c","B","o","o","k"," ","M","i","c">>
      [] name = YetiX      -> <<"Y","e","t","i"," ","X">>
      [] name = AirPodsPro -> <<"A","i","r","P","o","d","s"," ","P","r","o">>

\* one entry of sd.query_devices(): dev['name'], dev['max_input_channels']
Dev(n, ch) == [name |-> n, max_input_channels |-> ch]

\* the device lists the OS audio layer can report (hotplug moves between them):
\* nothing, the three microphones of the scenario, index 1 losing its input
\* channels, and index 1 unplugged (the indices above it shift down)
OsLists ==
    { <<>>,
      << Dev(MacBookMic, 1), Dev(YetiX, 1), Dev(AirPodsPro, 1) >>,
      << Dev(MacBookMic, 1), Dev(YetiX, 0), Dev(AirPodsPro, 1) >>,
      << Dev(MacBookMic, 1), Dev(AirPodsPro, 1) >> }

\* the [microphones] section of config.ini after _load_preferences:
\* a set of <<lower-cased pattern, priority>> (the dict's items)
PrefYetiAirpods ==
    { << <<"y","e","t","i">>, 10 >>, << <<"a","i","r","p","o","d","s">>, 5 >> }
PrefChoices == { PrefYetiAirpods }

\* further [microphones] sections: two rules of equal priority, no rule at all,
\* a negative and a zero priority, and two rules that match the same name
PrefTie ==
    { << <<"y","e","t","i">>, 10 >>, << <<"a","i","r","p","o","d","s">>, 10 >> }
PrefEmpty == {}
PrefNonPositive ==
    { << <<"y","e","t","i">>, -5 >>, << <<"m","i","c">>, 0 >> }
PrefOverlap ==
    { << <<"m","i","c">>, 3 >>, << <<"m","a","c","b","o","o","k">>, 7 >>,
      << <<"a","i","r","p","o","d","s">>, 7 >> }
AllPrefChoices ==
    { PrefYetiAirpods, PrefTie, PrefEmpty, PrefNonPositive, PrefOverlap }

\* bound on the length of a device list drawn as an input
MaxDevices == 3

\* every device list of up to MaxDevices entries over the three microphones and
\* one device without input channels (which a scan skips, leaving a gap in the
\* indices)
AllDeviceLists ==
    UNION { [1..n -> { Dev(MacBookMic, 1), Dev(YetiX, 1), Dev(AirPodsPro, 1),
                       Dev(YetiX, 0) }] : n \in 0..MaxDevices }

\* the indices a device can have
DevIndices == 0..2

\* what [Audio] device_index of config.ini can hold when the app starts
\* (load_config, line 834): a device index, or -1 for the default device
ConfiguredIndices == DevIndices \cup { NoDevice }

(* ------------------------------------------------------------------ *)
(* MicrophoneManager: pure parts                                       *)
(* ------------------------------------------------------------------ *)

Max2(a, b) == IF a >= b THEN a ELSE b

RECURSIVE MaxOver(_)
\* the loop "score = max(score, priority)" started at score = 0
MaxOver(S) ==
    IF S = {} THEN 0
    ELSE LET x == CHOOSE y \in S : TRUE
         IN  Max2(x, MaxOver(S \ {x}))

\* a score that is the highest matching priority itself, 0 only without a match
ScoreOfUnclamped(name, prefs) ==
    LET matching == { pr[2] : pr \in { q \in prefs :
                                         IsSubstring(q[1], Lower(Chars(name))) } }
    IN  IF matching = {} THEN 0
        ELSE CHOOSE m \in matching : \A x \in matching : x <= m

\* lines 237-241: the score of a device name under the preferences
ScoreOf(name, prefs) ==
    MaxOver({ pr[2] : pr \in { q \in prefs : IsSubstring(q[1], Lower(Chars(name))) } })

RECURSIVE InputMics(_, _)
\* lines 171-175: [(i, dev['name']) for i, dev in enumerate(devices) if max_input_channels > 0]
\* (k is the number of devices already enumerated)
InputMics(devices, k) ==
    IF k = Len(devices) THEN <<>>
    ELSE LET rest == InputMics(devices, k + 1)
         IN  IF devices[k + 1].max_input_channels > 0
             THEN << <<k, devices[k + 1].name>> >> \o rest
             ELSE rest

\* set((idx, name) for idx, name in self.available_mics)
MicSet(mics) == { mics[i] : i \in DOMAIN mics }

MicIndices(mics) == { mics[i][1] : i \in DOMAIN mics }

\* a filter that drops nothing
FilterExcludedNothing(mics, exclude) == mics

RECURSIVE FilterExcluded(_, _)
\* line 229: [(idx, name) for idx, name in available_mics if idx not in exclude_indices]
FilterExcluded(mics, exclude) ==
    IF mics = <<>> THEN <<>>
    ELSE IF Head(mics)[1] \in exclude
         THEN FilterExcluded(Tail(mics), exclude)
         ELSE << Head(mics) >> \o FilterExcluded(Tail(mics), exclude)

RECURSIVE InsertByScoreDescStrict(_, _)
\* an insertion that puts x before the elements of equal score
InsertByScoreDescStrict(sorted, x) ==
    IF sorted = <<>> THEN << x >>
    ELSE IF Head(sorted)[3] > x[3]
         THEN << Head(sorted) >> \o InsertByScoreDescStrict(Tail(sorted), x)
         ELSE << x >> \o sorted

RECURSIVE InsertByScoreDesc(_, _)
\* one insertion of the stable descending sort: x goes after every element whose
\* score is >= its own (equal scores keep their enumeration order)
InsertByScoreDesc(sorted, x) ==
    IF sorted = <<>> THEN << x >>
    ELSE IF Head(sorted)[3] >= x[3]
         THEN << Head(sorted) >> \o InsertByScoreDesc(Tail(sorted), x)
         ELSE << x >> \o sorted

\* a sort that was left out
SortByScoreDescMissing(scored) == scored

RECURSIVE SortByScoreDesc(_)
\* line 244: scored_mics.sort(key=lambda x: x[2], reverse=True)  (list.sort is stable,
\* and reverse=True keeps the original order of equal keys)
SortByScoreDesc(scored) ==
    IF scored = <<>> THEN <<>>
    ELSE InsertByScoreDesc(SortByScoreDesc(SubSeq(scored, 1, Len(scored) - 1)),
                           scored[Len(scored)])

\* lines 235-242: (index, name, score) for every filtered device
ScoredMics(mics, prefs) ==
    [i \in DOMAIN mics |-> << mics[i][1], mics[i][2], ScoreOf(mics[i][2], prefs) >>]

\* a ranking that scores the microphones and leaves them in enumeration order
score_microphones_unsorted(microphones, prefs) == ScoredMics(microphones, prefs)

\* score_microphones(microphones, preferences) of test_microphones.py (lines 50-63):
\* the same score loop as the app's, then the same stable sort by descending score
score_microphones(microphones, prefs) ==
    SortByScoreDesc(ScoredMics(microphones, prefs))

\* a selection whose no-match fallback takes the first device of the unfiltered list
get_best_microphone_index_unfiltered_fallback(mics, prefs, exclude) ==
    IF mics = <<>> THEN NoDevice
    ELSE LET available_filtered == FilterExcluded(mics, exclude)
             scored_mics == SortByScoreDesc(ScoredMics(available_filtered, prefs))
         IN  IF available_filtered = <<>> THEN NoDevice
             ELSE IF scored_mics[1][3] > 0 THEN scored_mics[1][1]
             ELSE mics[1][1]

\* MicrophoneManager.get_best_microphone_index(exclude_indices)
get_best_microphone_index(mics, prefs, exclude) ==
    IF mics = <<>> THEN NoDevice
    ELSE LET available_filtered == FilterExcluded(mics, exclude)
             scored_mics == SortByScoreDesc(ScoredMics(available_filtered, prefs))
         IN  IF available_filtered = <<>> THEN NoDevice
             ELSE IF scored_mics[1][3] > 0 THEN scored_mics[1][1]
             ELSE available_filtered[1][1]


\* MicrophoneManager.verify_microphone(index): the index is in the cached list and
\* the re-queried OS list (devices, when the query did not raise) still has an
\* input device at that index
verify_microphone(index, mics, queryOk, devices) ==
    /\ index # NoneIndex
    /\ index \in MicIndices(mics)
    /\ queryOk
    /\ index < Len(devices)
    /\ devices[index + 1].max_input_channels > 0

\* AppHelper.callAfter(self.change_callback, old, new, list_changed=...)
Callback(old, new, lc) ==
    [kind |-> "on_microphone_changed", old |-> old, new |-> new, list_changed |-> lc]

\* AppHelper.callAfter(rumps.alert, title=..., message=...): a blocking alert; its
\* title and text are not part of the state
Alert ==
    [kind |-> "alert", old |-> NoneIndex, new |-> NoneIndex, list_changed |-> FALSE]

\* a scan that reselects only when nothing was selected and keeps a lost index
ScanSelectionKeepsLost(cur, mics, prefs) ==
    IF cur = NoneIndex THEN get_best_microphone_index(mics, prefs, {}) ELSE cur

\* a scan that always moves the selection to the best microphone of the snapshot
ScanSelectionAlwaysBest(cur, mics, prefs) ==
    get_best_microphone_index(mics, prefs, {})

\* lines 177-198: the selection after a scan that found the microphones mics
ScanSelection(cur, mics, prefs) ==
    LET current_mic_still_available == cur # NoneIndex /\ cur \in MicIndices(mics)
    IN  IF cur # NoneIndex /\ ~current_mic_still_available
        THEN get_best_microphone_index(mics, prefs, {})
        ELSE IF cur = NoneIndex
             THEN get_best_microphone_index(mics, prefs, {})
             ELSE cur

\* a scan that reports a lost selection and the changed list in one callback
ScanCallbacksMerged(cur, oldMics, mics, prefs) ==
    LET new == ScanSelection(cur, mics, prefs)
        lost == cur # NoneIndex /\ cur \notin MicIndices(mics)
        changed == MicSet(oldMics) # MicSet(mics)
    IN  IF lost THEN << Callback(cur, new, changed) >>
        ELSE IF cur = NoneIndex THEN << Callback(NoneIndex, new, changed) >>
        ELSE IF changed THEN << Callback(new, new, TRUE) >>
        ELSE <<>>

\* a scan that reports selection changes only
ScanCallbacksSelectionOnly(cur, oldMics, mics, prefs) ==
    LET new == ScanSelection(cur, mics, prefs)
        lost == cur # NoneIndex /\ cur \notin MicIndices(mics)
    IN  IF lost THEN << Callback(cur, new, FALSE) >>
        ELSE IF cur = NoneIndex THEN << Callback(NoneIndex, new, FALSE) >>
        ELSE <<>>

\* lines 184-207: the callbacks a scan enqueues, in order
ScanCallbacks(cur, oldMics, mics, prefs) ==
    LET new == ScanSelection(cur, mics, prefs)
        lost == cur # NoneIndex /\ cur \notin MicIndices(mics)
        selCb == IF lost THEN << Callback(cur, new, FALSE) >>
                 ELSE IF cur = NoneIndex /\ new # NoneIndex
                      THEN << Callback(NoneIndex, new, FALSE) >>
                      ELSE <<>>
        listCb == IF MicSet(oldMics) # MicSet(mics) /\ new # NoneIndex
                  THEN << Callback(new, new, TRUE) >>
                  ELSE <<>>
    IN  selCb \o listCb

(* ------------------------------------------------------------------ *)
(* State                                                               *)
(* ------------------------------------------------------------------ *)

VARIABLES
    osDevices,          \* what sd.query_devices() returns now
    preferences,        \* MicrophoneManager.preferences
    available_mics,     \* MicrophoneManager.available_mics: <<index, name>> list
    current_mic_index,  \* MicrophoneManager.current_mic_index
    device_index,       \* DictationApp.device_index
    cfg_device_index,   \* [Audio] device_index persisted in config.ini
    is_recording,       \* DictationApp.is_recording
    stream,             \* DictationApp.stream: the device of the open stream, or NoneIndex
    open_streams,       \* PortAudio streams opened by the app and not closed
    timer_alive,        \* device_monitor_timer.is_alive()
    uiQueue,            \* callbacks enqueued with AppHelper.callAfter, oldest first
    mainPc,             \* main thread: "idle", or "scan" while a handler's scan is in flight
    hkPc,               \* listener thread: position inside start_recording
    hkRetry,            \* listener thread: retry_count of the current call
    hkErr,              \* listener thread: the kind of exception the open raised
    hkFailed,           \* listener thread: original_failed_device_index
    hkOpened,           \* listener thread: the device= argument of the failed open
    hkBest,             \* listener thread: new_best_index / new_fallback_index, between
                        \* the assignment of device_index and that of current_mic_index
    openAttempts,       \* stream opens attempted by the start_recording in progress
    hkTried,            \* history, kept by RecoverySpec: the devices whose open failed
                        \* in the start_recording in progress
    call,               \* the last get_best_microphone_index call observed: its
                        \* arguments, its scored list and its result (or NoCall)
    scan_timers,        \* started rumps.Timer objects that fire scan_devices
    scan,               \* per thread: its position in scan_devices and its locals
    cbScan,             \* for each uiQueue entry, the scan that enqueued it
    completed,          \* the scans that have returned, in the order they returned
    seen,               \* the available_mics list a reader last read
    lastDone,           \* a scan has returned and no thread has taken a step since
    recorded_data,      \* DictationApp.recorded_data: the number of buffered chunks
    tasks,              \* the transcription threads started, oldest first
    temp_files          \* the temporary .wav files that exist

vars == << osDevices, preferences, available_mics, current_mic_index, device_index,
           cfg_device_index, is_recording, stream, open_streams, timer_alive, uiQueue,
           mainPc, hkPc, hkRetry, hkErr, hkFailed, hkOpened, hkBest, openAttempts, hkTried, call,
           scan_timers, scan, cbScan, completed, seen, lastDone,
           recorded_data, tasks, temp_files >>

osVars   == << osDevices, preferences >>
selVars  == << current_mic_index, device_index, cfg_device_index >>
recVars  == << is_recording, stream, open_streams >>
mainVars == << mainPc, timer_alive, scan_timers >>
scanHist == << scan, cbScan, completed, seen, lastDone >>
pipeVars == << recorded_data, tasks, temp_files >>
hkLocals == << hkRetry, hkErr, hkFailed, hkOpened, hkBest, openAttempts, hkTried >>
hkVars   == << hkPc, hkRetry, hkErr, hkFailed, hkOpened, hkBest, openAttempts, hkTried >>

Room(k) == Len(uiQueue) + k <= MaxQueue

\* no call of get_best_microphone_index is being observed
NoCall == [exclude |-> {}, scored |-> <<>>, result |-> NoneIndex]

\* the threads that call scan_devices: the main thread (timer, menu, wake) and the
\* listener thread (start_recording)
Scanners == { "main", "listener" }

\* nothing has been read yet
NotRead == << "not read" >>

\* a thread that is not inside scan_devices
ScanIdle == [pc |-> "idle", id |-> 0, devices |-> <<>>, old |-> {}, k |-> 0]

\* no scan_devices call is followed statement by statement
NoScanHist ==
    /\ scan = [t \in Scanners |-> ScanIdle]
    /\ cbScan = <<>>
    /\ completed = <<>>
    /\ seen = NotRead
    /\ lastDone = FALSE

\* lines 549-552: self.recorded_data = [], no transcription thread, no temporary file
NoPipe ==
    /\ recorded_data = 0
    /\ tasks = <<>>
    /\ temp_files = {}

(* ------------------------------------------------------------------ *)
(* Init: the state DictationApp.__init__ leaves                        *)
(* ------------------------------------------------------------------ *)

\* lines 589-611 and 661-666: the first scan selects the best microphone, the app
\* syncs device_index to it and saves it, start_monitoring scans once more and the
\* timer is started.  The callbacks of both scans are still queued: the run loop
\* has not started.  With a microphone present the validated or newly chosen index
\* has been saved (lines 762-772, 598-604); with none, device_index is set to -1
\* (lines 716, 610) and config.ini keeps the index it held.
Init ==
    /\ osDevices \in OsLists
    /\ preferences \in PrefChoices
    /\ available_mics = InputMics(osDevices, 0)
    /\ current_mic_index = get_best_microphone_index(available_mics, preferences, {})
    /\ device_index = current_mic_index
    /\ cfg_device_index \in IF available_mics = <<>> THEN ConfiguredIndices
                                                      ELSE { device_index }
    /\ is_recording = FALSE
    /\ stream = NoneIndex
    /\ open_streams = 0
    /\ timer_alive = TRUE
    /\ scan_timers = 1
    /\ uiQueue = ScanCallbacks(NoneIndex, <<>>, available_mics, preferences)
                 \o ScanCallbacks(current_mic_index, available_mics, available_mics,
                                  preferences)
    /\ mainPc = "idle"
    /\ hkPc = "idle"
    /\ hkRetry = 0
    /\ hkErr = "none"
    /\ hkFailed = NoneIndex
    /\ hkOpened = NoneIndex
    /\ hkBest = NoneIndex
    /\ hkTried = {}
    /\ openAttempts = 0
    /\ call = NoCall
    /\ NoScanHist
    /\ NoPipe

(* ------------------------------------------------------------------ *)
(* The OS audio layer                                                  *)
(* ------------------------------------------------------------------ *)

\* hotplug, sleep/wake or a permission change: the OS reports another device list
OsChange ==
    /\ \E l \in OsLists \ {osDevices} : osDevices' = l
    /\ UNCHANGED << preferences, call, scanHist, pipeVars, available_mics, selVars, recVars, uiQueue,
                    mainVars, hkVars >>

(* ------------------------------------------------------------------ *)
(* MicrophoneManager.scan_devices                                      *)
(* A scan is two steps of its thread: it is called and blocks in       *)
(* sd.query_devices() (line 168); the query returns, with the OS list  *)
(* of that instant or by raising, and the rest of the method runs.     *)
(* ------------------------------------------------------------------ *)

\* lines 169-207: the query returned devices
ScanApply(devices) ==
    LET mics == InputMics(devices, 0)
        callbacks == ScanCallbacks(current_mic_index, available_mics, mics, preferences)
    IN  /\ Room(Len(callbacks))
        /\ available_mics' = mics
        /\ current_mic_index' = ScanSelection(current_mic_index, mics, preferences)
        /\ uiQueue' = uiQueue \o callbacks

\* a scan whose failed query had already emptied the list
ScanFailedClearsList ==
    /\ available_mics' = <<>>
    /\ UNCHANGED << current_mic_index, uiQueue >>

\* lines 210-212: sd.query_devices() raised; the except clause prints and returns
ScanFailed ==
    UNCHANGED << available_mics, current_mic_index, uiQueue >>

\* the query returns and the scan completes, one way or the other
ScanReturn(queryOk) ==
    IF queryOk THEN ScanApply(osDevices) ELSE ScanFailed

(* ------------------------------------------------------------------ *)
(* Main thread: the run loop.  It handles one event at a time, and the  *)
(* callAfter callbacks already queued are performed before the next     *)
(* timer, menu or workspace event is taken.                             *)
(* ------------------------------------------------------------------ *)

\* the handlers that start with mic_manager.scan_devices(): the rumps.Timer
\* callback (line 665), manual_refresh_devices, system_did_wake
ScanHandlers == { "timer", "refresh", "wake" }

\* one of the handlers is entered and its scan calls sd.query_devices()
MainScanCall ==
    /\ mainPc = "idle"
    /\ uiQueue = <<>>
    /\ mainPc' = "scan"
    /\ UNCHANGED << osVars, call, scanHist, pipeVars, available_mics, selVars, recVars,
                    timer_alive, scan_timers, uiQueue, hkVars >>

\* lines 1454-1457 of manual_refresh_devices: force the app's copy to the manager's
RefreshSync(cur) ==
    IF device_index # cur /\ cur # NoneIndex /\ cur # NoDevice
    THEN /\ device_index' = cur
         /\ cfg_device_index' = cur
    ELSE UNCHANGED << device_index, cfg_device_index >>

\* a wake handler that starts a new timer whether or not one is running
WakeTimerAlways(h) ==
    IF h = "wake"
    THEN /\ timer_alive' = TRUE
         /\ scan_timers' = scan_timers + 1
    ELSE UNCHANGED << timer_alive, scan_timers >>

\* lines 1505-1508 of system_did_wake: a timer that is not alive is replaced by a
\* new one, which is started
WakeTimer(h) ==
    IF h = "wake" /\ ~timer_alive
    THEN /\ timer_alive' = TRUE
         /\ scan_timers' = scan_timers + 1
    ELSE UNCHANGED << timer_alive, scan_timers >>

\* the query of handler h's scan returns (queryOk) or raises: the rest of the scan,
\* then the handler's own statements.  The timer callback runs only while a
\* started timer exists.
MainScanReturn(h, queryOk) ==
    /\ mainPc = "scan"
    /\ h = "timer" => scan_timers > 0
    /\ ScanReturn(queryOk)
    /\ IF h = "refresh" THEN RefreshSync(current_mic_index')
                        ELSE UNCHANGED << device_index, cfg_device_index >>
    /\ WakeTimer(h)
    /\ mainPc' = "idle"
    /\ UNCHANGED << osVars, call, scanHist, pipeVars, recVars, hkVars >>

\* a sleep handler that forgets the timer without stopping it
system_will_sleep_keeps_timer ==
    /\ mainPc = "idle"
    /\ uiQueue = <<>>
    /\ timer_alive
    /\ timer_alive' = FALSE
    /\ UNCHANGED << osVars, call, scanHist, pipeVars, available_mics, selVars, recVars,
                    uiQueue, mainPc, scan_timers, hkVars >>

\* system_will_sleep (lines 1490-1495): stop the periodic timer if it is alive
system_will_sleep ==
    /\ mainPc = "idle"
    /\ uiQueue = <<>>
    /\ timer_alive
    /\ timer_alive' = FALSE
    /\ scan_timers' = scan_timers - 1
    /\ UNCHANGED << osVars, call, scanHist, pipeVars, available_mics, selVars, recVars,
                    uiQueue, mainPc, hkVars >>

\* lines 436-451: change_microphone once the is_recording check has passed
ChangeVerified(new_mic_index) ==
    \E queryOk \in BOOLEAN :
        IF ~verify_microphone(new_mic_index, available_mics, queryOk, osDevices)
        THEN /\ Room(1)
             /\ uiQueue' = Append(uiQueue, Alert)
             /\ UNCHANGED selVars
        ELSE /\ device_index' = new_mic_index
             /\ current_mic_index' = new_mic_index
             /\ cfg_device_index' = new_mic_index
             /\ UNCHANGED uiQueue

\* a change_microphone that does not look at is_recording
change_microphone_unguarded(new_mic_index) ==
    /\ mainPc = "idle"
    /\ uiQueue = <<>>
    /\ ChangeVerified(new_mic_index)
    /\ UNCHANGED << osVars, call, scanHist, pipeVars, available_mics, recVars, mainVars, hkVars >>

\* change_microphone(new_mic_index), from a microphone menu item
change_microphone(new_mic_index) ==
    /\ mainPc = "idle"
    /\ uiQueue = <<>>
    /\ IF is_recording
       THEN /\ Room(1)
            /\ uiQueue' = Append(uiQueue, Alert)
            /\ UNCHANGED selVars
       ELSE ChangeVerified(new_mic_index)
    /\ UNCHANGED << osVars, call, scanHist, pipeVars, available_mics, recVars, mainVars, hkVars >>

\* on_microphone_changed(old_index, new_index, list_changed), lines 1392-1396
on_microphone_changed ==
    IF device_index # current_mic_index
    THEN /\ device_index' = current_mic_index
         /\ cfg_device_index' = current_mic_index
         /\ UNCHANGED current_mic_index
    ELSE UNCHANGED selVars

\* the run loop runs the oldest callAfter callback
RunCallback ==
    /\ mainPc = "idle"
    /\ uiQueue # <<>>
    /\ uiQueue' = Tail(uiQueue)
    /\ IF Head(uiQueue).kind = "on_microphone_changed"
       THEN on_microphone_changed
       ELSE UNCHANGED selVars
    /\ UNCHANGED << osVars, call, scanHist, pipeVars, available_mics, recVars, mainVars, hkVars >>

(* ------------------------------------------------------------------ *)
(* Listener thread: on_press -> start_recording                        *)
(* ------------------------------------------------------------------ *)

\* what sd.InputStream(...) / stream.start() can do: succeed, raise a
\* PortAudioError whose text names the device (lines 1014-1016), raise another
\* PortAudioError, or raise another exception
OpenOutcomes == { "ok", "device_error", "other_portaudio_error", "other_exception" }

\* a classification that sends every PortAudioError to the fallback
IsDeviceRelatedAnyPortAudio(err) == err \in { "device_error", "other_portaudio_error" }

\* lines 1014-1016: the PortAudioError is one of the device-related ones
IsDeviceRelated(err) == err = "device_error"

\* bound on the chunks the audio callback buffers during one recording
MaxChunks == 1

\* bound on the transcription threads followed
MaxTasks == 2

\* a stream can only start on an index at which the OS has an input device
CanOpen(index) ==
    /\ index >= 0
    /\ index < Len(osDevices)
    /\ osDevices[index + 1].max_input_channels > 0

\* a clean-up that drops the handle without closing the stream
close_stream_safely_forgets(held, opened) ==
    /\ stream' = NoneIndex
    /\ open_streams' = opened

\* _close_stream_safely (lines 1061-1070), called with self.stream = held while
\* opened streams are open: a held stream is closed, and the handle is reset
close_stream_safely(held, opened) ==
    /\ stream' = NoneIndex
    /\ open_streams' = IF held # NoneIndex THEN opened - 1 ELSE opened

\* start_recording returns to the listener: its locals are gone
Return ==
    /\ hkPc' = "idle"
    /\ hkRetry' = 0
    /\ hkErr' = "none"
    /\ hkFailed' = NoneIndex
    /\ hkOpened' = NoneIndex
    /\ hkBest' = NoneIndex
    /\ openAttempts' = 0
    /\ hkTried' = {}

\* on_press with the hotkey: start_recording() is called with retry_count = 0
on_press ==
    /\ hkPc = "idle"
    /\ hkPc' = "begin"
    /\ UNCHANGED << osVars, call, scanHist, pipeVars, available_mics, selVars, recVars, uiQueue, mainVars,
                    hkLocals >>

\* a retry check that lets one more call through
RetriesExhaustedOffByOne(retry_count) == retry_count > MAX_RETRIES

\* line 936: the retry bound is reached
RetriesExhausted(retry_count) == retry_count >= MAX_RETRIES

\* a retry check that gives up without telling the user
EntryNotRecordingSilent ==
    IF RetriesExhausted(hkRetry)
    THEN /\ Return
         /\ UNCHANGED uiQueue
    ELSE /\ hkPc' = "scan"
         /\ UNCHANGED << uiQueue, hkLocals >>

\* lines 934-950: the retry check, then the forced scan is called
EntryNotRecording ==
    IF RetriesExhausted(hkRetry)
    THEN /\ Room(1)
         /\ uiQueue' = Append(uiQueue, Alert)
         /\ Return
    ELSE /\ hkPc' = "scan"
         /\ UNCHANGED << uiQueue, hkLocals >>

\* a start_recording without the is_recording check
start_recording_entry_unchecked ==
    /\ hkPc = "begin"
    /\ EntryNotRecording
    /\ UNCHANGED << osVars, call, scanHist, pipeVars, available_mics, selVars, recVars, mainVars >>

\* lines 929-950: the is_recording and retry checks, then the forced scan is called
start_recording_entry ==
    /\ hkPc = "begin"
    /\ IF is_recording
       THEN /\ Return
            /\ UNCHANGED uiQueue
       ELSE EntryNotRecording
    /\ UNCHANGED << osVars, call, scanHist, pipeVars, available_mics, selVars, recVars, mainVars >>

\* line 950: the forced scan's query returns or raises
start_recording_scan(queryOk) ==
    /\ hkPc = "scan"
    /\ ScanReturn(queryOk)
    /\ hkPc' = "verify"
    /\ UNCHANGED << osVars, call, scanHist, pipeVars, device_index, cfg_device_index, recVars, mainVars,
                    hkLocals >>

\* a start_recording that goes on to open the default device when none is found
start_recording_verify_opens_default ==
    /\ hkPc = "verify"
    /\ \E queryOk \in BOOLEAN :
       IF verify_microphone(device_index, available_mics, queryOk, osDevices)
       THEN /\ hkPc' = "open"
            /\ UNCHANGED << selVars, uiQueue, hkLocals >>
       ELSE LET new_best_index ==
                    get_best_microphone_index(available_mics, preferences, {})
            IN  /\ device_index' = new_best_index
                /\ current_mic_index' = new_best_index
                /\ cfg_device_index' = new_best_index
                /\ hkPc' = "open"
                /\ UNCHANGED << uiQueue, hkLocals >>
    /\ UNCHANGED << osVars, call, scanHist, pipeVars, available_mics, recVars, mainVars >>

\* lines 954-991: verify the app's device, or switch to the best one
start_recording_verify ==
    /\ hkPc = "verify"
    /\ \E queryOk \in BOOLEAN :
       IF verify_microphone(device_index, available_mics, queryOk, osDevices)
       THEN /\ hkPc' = "open"
            /\ UNCHANGED << selVars, uiQueue, hkLocals >>
       ELSE LET new_best_index ==
                    get_best_microphone_index(available_mics, preferences, {})
            IN  IF new_best_index = NoDevice
                THEN /\ Room(1)
                     /\ uiQueue' = Append(uiQueue, Alert)
                     /\ Return
                     /\ UNCHANGED selVars
                ELSE /\ device_index' = new_best_index
                     /\ current_mic_index' = new_best_index
                     /\ cfg_device_index' = new_best_index
                     /\ hkPc' = "open"
                     /\ UNCHANGED << uiQueue, hkLocals >>
    /\ UNCHANGED << osVars, call, scanHist, pipeVars, available_mics, recVars, mainVars >>

\* lines 993-1008 and 1053-1057: the stream is opened and started on
\* self.device_index; on an exception is_recording is reset and the stream closed.
\* The exception comes from sd.InputStream(...), and self.stream is what it was, or
\* from stream.start(), and self.stream is the stream just constructed.
\* (tried: the devices whose open has failed, after a failure of this one)
OpenStream(tried) ==
    /\ hkPc = "open"
    /\ \E outcome \in OpenOutcomes :
       /\ outcome = "ok" => CanOpen(device_index)
       /\ IF outcome = "ok"
          THEN /\ stream' = device_index
               /\ open_streams' = open_streams + 1
               /\ is_recording' = TRUE
               /\ Return
          ELSE /\ \E constructed \in BOOLEAN :
                    IF constructed
                    THEN close_stream_safely(device_index, open_streams + 1)
                    ELSE close_stream_safely(stream, open_streams)
               /\ is_recording' = FALSE
               /\ hkPc' = "except"
               /\ hkErr' = outcome
               /\ hkOpened' = device_index
               /\ openAttempts' = openAttempts + 1
               /\ hkTried' = tried
               /\ UNCHANGED << hkRetry, hkFailed, hkBest >>
    /\ UNCHANGED << osVars, call, scanHist, pipeVars, available_mics, selVars, uiQueue, mainVars >>

\* the listener thread opens the stream
start_recording_open == OpenStream(hkTried)

\* lines 1010-1023 and 1049-1059: a device-related PortAudioError reads the failed
\* index back from self.device_index and goes on to the re-scan; any other error
\* alerts and returns
start_recording_except ==
    /\ hkPc = "except"
    /\ IF IsDeviceRelated(hkErr)
       THEN /\ hkFailed' = device_index
            /\ hkPc' = "rescan"
            /\ UNCHANGED << uiQueue, hkRetry, hkErr, hkOpened, hkBest, openAttempts, hkTried >>
       ELSE /\ Room(1)
            /\ uiQueue' = Append(uiQueue, Alert)
            /\ Return
    /\ UNCHANGED << osVars, call, scanHist, pipeVars, available_mics, selVars, recVars, mainVars >>

\* line 1023: the re-scan's query returns or raises
start_recording_rescan(queryOk) ==
    /\ hkPc = "rescan"
    /\ ScanReturn(queryOk)
    /\ hkPc' = "fallback"
    /\ UNCHANGED << osVars, call, scanHist, pipeVars, device_index, cfg_device_index, recVars, mainVars,
                    hkLocals >>

\* line 1024: the fallback device, chosen without the one that failed
FallbackIndex(mics, prefs, failed) ==
    get_best_microphone_index(mics, prefs, {failed})

\* a fallback that calls start_recording() afresh: retry_count starts from 0 again
start_recording_fallback_starts_over ==
    /\ hkPc = "fallback"
    /\ LET new_fallback_index == FallbackIndex(available_mics, preferences, hkFailed)
       IN  IF new_fallback_index # NoDevice
           THEN /\ device_index' = new_fallback_index
                /\ current_mic_index' = new_fallback_index
                /\ cfg_device_index' = new_fallback_index
                /\ hkRetry' = 0
                /\ openAttempts' = 0
                /\ hkPc' = "begin"
                /\ hkErr' = "none"
                /\ hkFailed' = NoneIndex
                /\ hkOpened' = NoneIndex
                /\ hkTried' = {}
                /\ UNCHANGED << uiQueue, hkBest >>
           ELSE /\ Room(1)
                /\ uiQueue' = Append(uiQueue, Alert)
                /\ Return
                /\ UNCHANGED selVars
    /\ UNCHANGED << osVars, call, scanHist, pipeVars, available_mics, recVars, mainVars >>

\* lines 1024-1051: select the fallback and call start_recording(retry_count + 1),
\* or alert when there is none
start_recording_fallback ==
    /\ hkPc = "fallback"
    /\ LET new_fallback_index == FallbackIndex(available_mics, preferences, hkFailed)
       IN  IF new_fallback_index # NoDevice
           THEN /\ device_index' = new_fallback_index
                /\ current_mic_index' = new_fallback_index
                /\ cfg_device_index' = new_fallback_index
                /\ hkRetry' = hkRetry + 1
                /\ hkPc' = "begin"
                /\ hkErr' = "none"
                /\ hkFailed' = NoneIndex
                /\ hkOpened' = NoneIndex
                /\ UNCHANGED << uiQueue, hkBest, openAttempts, hkTried >>
           ELSE /\ Room(1)
                /\ uiQueue' = Append(uiQueue, Alert)
                /\ Return
                /\ UNCHANGED selVars
    /\ UNCHANGED << osVars, call, scanHist, pipeVars, available_mics, recVars, mainVars >>

\* a transcription thread just started on temporary file f
NewTask(f) == [pc |-> "transcribe", file |-> f, transcribed_text |-> "unset"]

\* lines 1255-1262: the buffered audio is saved to a new temporary file and a
\* thread is started on it (saved), or save_audio_to_temp_file alerts and returns
\* None (a file that a failed write leaves behind is not followed).  MaxTasks
\* bounds the threads followed.
SaveAndTranscribe(saved) ==
    IF saved
    THEN /\ Len(tasks) < MaxTasks
         /\ tasks' = Append(tasks, NewTask(Len(tasks) + 1))
         /\ temp_files' = temp_files \cup { Len(tasks) + 1 }
         /\ UNCHANGED uiQueue
    ELSE /\ Room(1)
         /\ uiQueue' = Append(uiQueue, Alert)
         /\ UNCHANGED << tasks, temp_files >>

\* a release handler that transcribes whatever the buffer holds, nothing included
on_release_transcribes_empty ==
    /\ hkPc = "idle"
    /\ is_recording
    /\ is_recording' = FALSE
    /\ stream' = NoneIndex
    /\ open_streams' = IF stream # NoneIndex THEN open_streams - 1 ELSE open_streams
    /\ recorded_data' = 0
    /\ \E saved \in BOOLEAN : SaveAndTranscribe(saved)
    /\ UNCHANGED << osVars, call, scanHist, available_mics, selVars, mainVars, hkVars >>

\* a release handler that transcribes on the listener thread and waits for it
on_release_blocking ==
    /\ hkPc = "idle"
    /\ is_recording
    /\ is_recording' = FALSE
    /\ stream' = NoneIndex
    /\ open_streams' = IF stream # NoneIndex THEN open_streams - 1 ELSE open_streams
    /\ recorded_data' = 0
    /\ IF recorded_data = 0
       THEN UNCHANGED << tasks, temp_files, uiQueue, hkPc >>
       ELSE /\ \E saved \in BOOLEAN : SaveAndTranscribe(saved)
            /\ hkPc' = IF Len(tasks') > Len(tasks) THEN "join" ELSE hkPc
    /\ UNCHANGED << osVars, call, scanHist, available_mics, selVars, mainVars, hkLocals >>

\* on_release with the hotkey while recording: process_dictation_on_release (lines
\* 1253-1266), which calls stop_recording (lines 1072-1112): the flag is reset, the
\* stream stopped and closed (stop() and close() are called with their defaults,
\* which ignore PortAudio errors), and the buffer handed over and emptied; an empty
\* buffer gives None and nothing more is done, otherwise the audio is saved and a
\* transcription thread started, and the handler returns without waiting for it
on_release ==
    /\ hkPc = "idle"
    /\ is_recording
    /\ is_recording' = FALSE
    /\ stream' = NoneIndex
    /\ open_streams' = IF stream # NoneIndex THEN open_streams - 1 ELSE open_streams
    /\ recorded_data' = 0
    /\ IF recorded_data = 0
       THEN UNCHANGED << tasks, temp_files, uiQueue >>
       ELSE \E saved \in BOOLEAN : SaveAndTranscribe(saved)
    /\ UNCHANGED << osVars, call, scanHist, available_mics, selVars, mainVars, hkVars >>

(* ------------------------------------------------------------------ *)
(* Specification                                                       *)
(* ------------------------------------------------------------------ *)

MainStep ==
    \/ MainScanCall
    \/ \E h \in ScanHandlers, queryOk \in BOOLEAN : MainScanReturn(h, queryOk)
    \/ system_will_sleep
    \/ \E i \in DevIndices : change_microphone(i)
    \/ RunCallback

ListenerStep ==
    \/ on_press
    \/ start_recording_entry
    \/ \E queryOk \in BOOLEAN : start_recording_scan(queryOk)
    \/ start_recording_verify
    \/ start_recording_open
    \/ start_recording_except
    \/ \E queryOk \in BOOLEAN : start_recording_rescan(queryOk)
    \/ start_recording_fallback
    \/ on_release

\* (the PortAudio thread is not part of Spec: every recording is released with an
\* empty buffer; PipeSpec adds it)
Next == OsChange \/ MainStep \/ ListenerStep

Spec == Init /\ [][Next]_vars

\* the positions of the listener thread
HkPositions ==
    { "idle", "begin", "scan", "verify", "sync", "open", "except", "rescan", "fallback",
      "retry" }

\* a start_recording call in progress moves on: the listener thread is scheduled,
\* sd.query_devices() and sd.InputStream(...) return or raise, and callAfter returns
\* at once (nothing in start_recording waits for another thread).  The steps that
\* change hkPc from a position inside the call are the steps of start_recording.
BeginLive == Spec /\ WF_hkPc(hkPc # "idle" /\ hkPc' \in HkPositions)

(* ------------------------------------------------------------------ *)
(* The main thread of an app that stays awake and whose device queries  *)
(* succeed: the periodic timer of __init__ (lines 663-666) keeps        *)
(* calling scan_devices, the run loop performs the queued callbacks,    *)
(* the user picks microphones in the menu, the OS plugs and unplugs.    *)
(* ------------------------------------------------------------------ *)

HotplugNext ==
    \/ OsChange
    \/ MainScanCall
    \/ MainScanReturn("timer", TRUE)
    \/ RunCallback
    \/ \E new_mic_index \in DevIndices : change_microphone(new_mic_index)

HotplugSpec == Init /\ [][HotplugNext]_vars

\* The started rumps.Timer fires every device_scan_interval seconds, the query of
\* its scan returns, and the run loop runs what callAfter queued.  The run loop
\* serves its events in turn, so menu clicks and callbacks that keep arriving
\* cannot keep the timer's event from being served: the scan is entered if the
\* run loop is free for it again and again, an entered scan returns, and a
\* queued callback is run.
HotplugLive ==
    /\ HotplugSpec
    /\ SF_mainPc(MainScanCall)
    /\ WF_mainPc(mainPc = "scan" /\ mainPc' = "idle")
    /\ WF_uiQueue(RunCallback)

(* ------------------------------------------------------------------ *)
(* The app with the two assignments of start_recording followed one    *)
(* by one: self.device_index = ... and, in the next statement,         *)
(* self.mic_manager.current_mic_index = ... are written on the         *)
(* listener thread with no lock, and the main thread can run between   *)
(* them.                                                               *)
(* ------------------------------------------------------------------ *)

\* lines 954-969: verify the app's device; when it is unavailable and a best one
\* exists, self.device_index = new_best_index
start_recording_verify_device ==
    /\ hkPc = "verify"
    /\ \E queryOk \in BOOLEAN :
       IF verify_microphone(device_index, available_mics, queryOk, osDevices)
       THEN /\ hkPc' = "open"
            /\ UNCHANGED << selVars, uiQueue, hkLocals >>
       ELSE LET new_best_index ==
                    get_best_microphone_index(available_mics, preferences, {})
            IN  IF new_best_index = NoDevice
                THEN /\ Room(1)
                     /\ uiQueue' = Append(uiQueue, Alert)
                     /\ Return
                     /\ UNCHANGED selVars
                ELSE /\ device_index' = new_best_index
                     /\ hkBest' = new_best_index
                     /\ hkPc' = "sync"
                     /\ UNCHANGED << current_mic_index, cfg_device_index, uiQueue,
                                     hkRetry, hkErr, hkFailed, hkOpened, openAttempts, hkTried >>
    /\ UNCHANGED << osVars, call, scanHist, pipeVars, available_mics, recVars, mainVars >>

\* lines 970-976: self.mic_manager.current_mic_index = new_best_index, then
\* update_config_with_new_device() writes self.device_index as it is now (line 487)
start_recording_sync_manager ==
    /\ hkPc = "sync"
    /\ current_mic_index' = hkBest
    /\ cfg_device_index' = device_index
    /\ hkBest' = NoneIndex
    /\ hkPc' = "open"
    /\ UNCHANGED << osVars, call, scanHist, pipeVars, available_mics, device_index, recVars,
                    uiQueue, mainVars, hkRetry, hkErr, hkFailed, hkOpened, openAttempts, hkTried >>

\* lines 1024-1027 and 1045-1051: the fallback is chosen and, when there is one,
\* self.device_index = new_fallback_index
start_recording_fallback_device ==
    /\ hkPc = "fallback"
    /\ LET new_fallback_index == FallbackIndex(available_mics, preferences, hkFailed)
       IN  IF new_fallback_index # NoDevice
           THEN /\ device_index' = new_fallback_index
                /\ hkBest' = new_fallback_index
                /\ hkPc' = "retry"
                /\ UNCHANGED << current_mic_index, cfg_device_index, uiQueue,
                                hkRetry, hkErr, hkFailed, hkOpened, openAttempts, hkTried >>
           ELSE /\ Room(1)
                /\ uiQueue' = Append(uiQueue, Alert)
                /\ Return
                /\ UNCHANGED selVars
    /\ UNCHANGED << osVars, call, scanHist, pipeVars, available_mics, recVars, mainVars >>

\* lines 1028-1043: self.mic_manager.current_mic_index = new_fallback_index, the
\* config is written, and start_recording(retry_count + 1) is called
start_recording_fallback_retry ==
    /\ hkPc = "retry"
    /\ current_mic_index' = hkBest
    /\ cfg_device_index' = device_index
    /\ hkRetry' = hkRetry + 1
    /\ hkPc' = "begin"
    /\ hkErr' = "none"
    /\ hkFailed' = NoneIndex
    /\ hkOpened' = NoneIndex
    /\ hkBest' = NoneIndex
    /\ UNCHANGED << osVars, call, scanHist, pipeVars, available_mics, device_index, recVars,
                    uiQueue, mainVars, openAttempts, hkTried >>

ListenerStatements ==
    \/ on_press
    \/ start_recording_entry
    \/ \E queryOk \in BOOLEAN : start_recording_scan(queryOk)
    \/ start_recording_verify_device
    \/ start_recording_sync_manager
    \/ start_recording_open
    \/ start_recording_except
    \/ \E queryOk \in BOOLEAN : start_recording_rescan(queryOk)
    \/ start_recording_fallback_device
    \/ start_recording_fallback_retry
    \/ on_release

SyncNext == OsChange \/ MainStep \/ ListenerStatements

SyncSpec == Init /\ [][SyncNext]_vars

(* ------------------------------------------------------------------ *)
(* start_recording with the history of its failed opens: the listener  *)
(* thread, the OS and the run loop's callbacks.                         *)
(* ------------------------------------------------------------------ *)

\* the open of Spec, which also notes the device of a failed open
start_recording_open_noted == OpenStream(hkTried \cup { device_index })

ListenerNoted ==
    \/ on_press
    \/ start_recording_entry
    \/ \E queryOk \in BOOLEAN : start_recording_scan(queryOk)
    \/ start_recording_verify
    \/ start_recording_open_noted
    \/ start_recording_except
    \/ \E queryOk \in BOOLEAN : start_recording_rescan(queryOk)
    \/ start_recording_fallback
    \/ on_release

RecoveryNext == OsChange \/ RunCallback \/ ListenerNoted

RecoverySpec == Init /\ [][RecoveryNext]_vars

(* ------------------------------------------------------------------ *)
(* get_best_microphone_index on its own: the manager holds any         *)
(* snapshot a scan can build and any preferences, and the method is    *)
(* called with any exclusion list.                                     *)
(* ------------------------------------------------------------------ *)

SelInit ==
    /\ osDevices \in AllDeviceLists
    /\ preferences \in AllPrefChoices
    /\ available_mics = InputMics(osDevices, 0)
    /\ current_mic_index = NoneIndex
    /\ device_index = NoDevice
    /\ cfg_device_index = NoDevice
    /\ is_recording = FALSE
    /\ stream = NoneIndex
    /\ open_streams = 0
    /\ timer_alive = FALSE
    /\ scan_timers = 0
    /\ uiQueue = <<>>
    /\ mainPc = "idle"
    /\ hkPc = "idle"
    /\ hkRetry = 0
    /\ hkErr = "none"
    /\ hkFailed = NoneIndex
    /\ hkOpened = NoneIndex
    /\ hkBest = NoneIndex
    /\ hkTried = {}
    /\ openAttempts = 0
    /\ call = NoCall
    /\ NoScanHist
    /\ NoPipe

\* get_best_microphone_index(exclude_indices=exclude) is called and returns; the
\* scored list it built (line 242, before the sort) and its result are observed
CallGetBest(exclude) ==
    /\ call' = [ exclude |-> exclude,
                 scored  |-> ScoredMics(FilterExcluded(available_mics, exclude),
                                        preferences),
                 result  |-> get_best_microphone_index(available_mics, preferences,
                                                       exclude) ]
    /\ UNCHANGED << osVars, scanHist, pipeVars, available_mics, selVars, recVars,
                    uiQueue, mainVars, hkVars >>

SelNext == \E exclude \in SUBSET (0..(MaxDevices - 1)) : CallGetBest(exclude)

SelSpec == SelInit /\ [][SelNext]_vars

(* ------------------------------------------------------------------ *)
(* Properties                                                          *)
(* ------------------------------------------------------------------ *)

\* C1: for one start_recording entered with retry_count 0, at most two stream opens
\* are attempted: an open is only ever the first or the second of its begin, and
\* once two have failed the session is not recording, holds no stream, and is on
\* its way out (no further scan, verification or open).
C1_AtMostTwoOpens ==
    /\ openAttempts <= 2
    /\ hkPc = "open" => openAttempts < 2
    /\ openAttempts = 2 =>
          /\ ~is_recording
          /\ stream = NoneIndex
          /\ hkPc \notin { "scan", "verify", "open" }

\* C1, reached: two opens have failed and the second recursive call is entered
C1_TwoOpensFailed ==
    /\ hkPc = "begin"
    /\ openAttempts = 2
    /\ hkRetry = 2

\* C2: while recording, a background scan (timer or wake) changes neither
\* current_mic_index nor device_index.
C2_ScanKeepsSelectionWhileRecording ==
    [][ ( /\ is_recording
          /\ \E queryOk \in BOOLEAN : \/ MainScanReturn("timer", queryOk)
                                      \/ MainScanReturn("wake", queryOk) )
        => UNCHANGED << current_mic_index, device_index >> ]_vars

\* C3: whenever start_recording opens a stream, the index it opens is in the
\* latest snapshot (available_mics) at that instant.
C3_OpenedIndexIsInSnapshot ==
    [][ start_recording_open => device_index \in MicIndices(available_mics) ]_vars

\* C4: a scan whose device query fails changes neither current_mic_index nor
\* available_mics and enqueues no callback, whichever thread and handler runs it.
C4_FailedQueryChangesNothing ==
    [][ ( \/ \E h \in ScanHandlers : MainScanReturn(h, FALSE)
          \/ start_recording_scan(FALSE)
          \/ start_recording_rescan(FALSE) )
        => UNCHANGED << current_mic_index, available_mics, uiQueue >> ]_vars

\* C4, reached: a scan is in flight whose query, had it succeeded, would change
\* both the snapshot and the selection
C4_ScanInFlightOverStaleSnapshot ==
    /\ mainPc = "scan" \/ hkPc \in { "scan", "rescan" }
    /\ MicSet(InputMics(osDevices, 0)) # MicSet(available_mics)
    /\ current_mic_index \notin MicIndices(InputMics(osDevices, 0))

\* C5: no two scan_devices executions are in flight at once (the main thread's
\* and the listener thread's forced scan or re-scan).
C5_ScansAreSequential ==
    ~ ( mainPc = "scan" /\ hkPc \in { "scan", "rescan" } )

\* C6: the listener thread never writes the selection (current_mic_index,
\* device_index) itself.
C6_ListenerNeverWritesSelection ==
    [][ ListenerStep => UNCHANGED << current_mic_index, device_index >> ]_vars

\* C7: start_recording entered while recording returns at once and changes
\* nothing: selection, config, snapshot, stream, recording flag and callback
\* queue are as before, and no scan and no open is started.
C7_BeginWhileRecordingRejected ==
    [][ ( start_recording_entry /\ is_recording )
        => /\ hkPc' = "idle"
           /\ openAttempts' = 0
           /\ UNCHANGED << selVars, available_mics, recVars, uiQueue >> ]_vars

\* C7, reached: start_recording has been entered while a recording is running
C7_BeginEnteredWhileRecording ==
    /\ hkPc = "begin"
    /\ is_recording
    /\ stream # NoneIndex

\* C8: change_microphone while recording enqueues an alert and leaves
\* device_index, current_mic_index and the persisted device_index unchanged.
C8_ManualSwitchWhileRecordingRejected ==
    [][ ( is_recording /\ \E i \in DevIndices : change_microphone(i) )
        => /\ uiQueue' = Append(uiQueue, Alert)
           /\ UNCHANGED selVars ]_vars

\* C8, reached: a recording is running, the rejection's alert is queued, and
\* another input device was there to switch to
C8_AlertQueuedWhileRecording ==
    /\ is_recording
    /\ uiQueue = << Alert >>
    /\ hkPc = "idle"
    /\ Len(available_mics) > 1

\* C9: after a device-related failure of the open on device f, when the re-scanned
\* snapshot has another device, the fallback selected is never f, it becomes the
\* current selection of both copies, and start_recording is retried.
C9_FallbackIsNotTheFailedDevice ==
    [][ ( start_recording_fallback /\ hkPc' = "begin" )
        => /\ device_index' # hkOpened
           /\ current_mic_index' = device_index'
           /\ hkRetry' = hkRetry + 1 ]_vars

\* C10: an open that fails with an error that is not device-related ends the
\* begin at once: no re-scan, no fallback, no retry, not recording, no stream,
\* and selection, config and snapshot unchanged.
C10_OtherErrorFailsImmediately ==
    [][ ( start_recording_except
          /\ hkErr \in { "other_portaudio_error", "other_exception" } )
        => /\ hkPc' = "idle"
           /\ ~is_recording'
           /\ stream' = NoneIndex
           /\ UNCHANGED << selVars, available_mics >> ]_vars

\* C10, reached: the open has raised an error that is not device-related while
\* another input device was available as a fallback
C10_OtherErrorRaised ==
    /\ hkPc = "except"
    /\ hkErr \in { "other_portaudio_error", "other_exception" }
    /\ Len(available_mics) > 1

(* ------------------------------------------------------------------ *)
(* MicrophoneManager on its own, from its construction: one caller at  *)
(* a time scans, assigns the selection as the app does, and the queued *)
(* callbacks are delivered.                                            *)
(* ------------------------------------------------------------------ *)

\* MicrophoneManager.__init__ (lines 128-140): no snapshot, no selection yet
MgrInit ==
    /\ osDevices \in OsLists
    /\ preferences \in AllPrefChoices
    /\ available_mics = <<>>
    /\ current_mic_index = NoneIndex
    /\ device_index = NoDevice
    /\ cfg_device_index = NoDevice
    /\ is_recording = FALSE
    /\ stream = NoneIndex
    /\ open_streams = 0
    /\ timer_alive = FALSE
    /\ scan_timers = 0
    /\ uiQueue = <<>>
    /\ mainPc = "idle"
    /\ hkPc = "idle"
    /\ hkRetry = 0
    /\ hkErr = "none"
    /\ hkFailed = NoneIndex
    /\ hkOpened = NoneIndex
    /\ hkBest = NoneIndex
    /\ hkTried = {}
    /\ openAttempts = 0
    /\ call = NoCall
    /\ NoScanHist
    /\ NoPipe

\* scan_devices() from call to return, its query succeeding (queryOk) or raising
scan_devices(queryOk) ==
    /\ ScanReturn(queryOk)
    /\ UNCHANGED << osVars, call, scanHist, pipeVars, device_index, cfg_device_index, recVars, mainVars,
                    hkVars >>

\* the app assigns mic_manager.current_mic_index: a device of the snapshot
\* (lines 451, 606, 970, 1028), or -1 when there is none (line 611)
assign_current_mic_index(index) ==
    /\ current_mic_index # NoneIndex
    /\ \/ index \in MicIndices(available_mics)
       \/ index = NoDevice /\ available_mics = <<>>
    /\ index # current_mic_index
    /\ current_mic_index' = index
    /\ UNCHANGED << osVars, call, scanHist, pipeVars, available_mics, device_index, cfg_device_index,
                    recVars, uiQueue, mainVars, hkVars >>

\* the run loop hands the oldest queued callback to the subscriber
deliver_callback ==
    /\ uiQueue # <<>>
    /\ uiQueue' = Tail(uiQueue)
    /\ UNCHANGED << osVars, call, scanHist, pipeVars, available_mics, selVars, recVars, mainVars,
                    hkVars >>

MgrNext ==
    \/ OsChange
    \/ \E queryOk \in BOOLEAN : scan_devices(queryOk)
    \/ \E index \in DevIndices \cup { NoDevice } : assign_current_mic_index(index)
    \/ deliver_callback

MgrSpec == MgrInit /\ [][MgrNext]_vars

(* ------------------------------------------------------------------ *)
(* scan_devices statement by statement.  The method takes no lock: the *)
(* main thread and the listener thread can both be inside it, and a    *)
(* thread switch can fall between any two of its statements.           *)
(* ------------------------------------------------------------------ *)

\* bound on the number of scan_devices calls followed
MaxScans == 2

\* the threads that are inside scan_devices
InFlight == { t \in Scanners : scan[t].pc # "idle" }

\* the number the next scan_devices call is known by
NextScanId == Len(completed) + Cardinality(InFlight) + 1

\* the app is running: __init__ is over, the callbacks queued so far have been
\* performed, the snapshot is that of the last scan and the OS list is what hotplug
\* has since made of it (it stays as it is while the calls are followed)
ScanInit ==
    /\ osDevices \in OsLists
    /\ preferences = PrefYetiAirpods
    /\ \E l \in OsLists : available_mics = InputMics(l, 0)
    /\ current_mic_index = get_best_microphone_index(available_mics, preferences, {})
    /\ device_index = current_mic_index
    /\ cfg_device_index = device_index
    /\ is_recording = FALSE
    /\ stream = NoneIndex
    /\ open_streams = 0
    /\ timer_alive = TRUE
    /\ scan_timers = 1
    /\ uiQueue = <<>>
    /\ mainPc = "idle"
    /\ hkPc = "idle"
    /\ hkRetry = 0
    /\ hkErr = "none"
    /\ hkFailed = NoneIndex
    /\ hkOpened = NoneIndex
    /\ hkBest = NoneIndex
    /\ hkTried = {}
    /\ openAttempts = 0
    /\ call = NoCall
    /\ NoScanHist
    /\ NoPipe

\* what no statement of scan_devices touches
ScanFrame ==
    UNCHANGED << osVars, call, pipeVars, device_index, cfg_device_index, recVars,
                 mainVars, hkVars >>

\* line 168: thread t calls scan_devices and sd.query_devices() returns the OS
\* list, or raises and the except clause (lines 210-212) returns
scan_query(t, queryOk) ==
    /\ scan[t].pc = "idle"
    /\ NextScanId <= MaxScans
    /\ IF queryOk
       THEN /\ scan' = [scan EXCEPT ![t] = [ pc |-> "old", id |-> NextScanId,
                                             devices |-> osDevices, old |-> {},
                                             k |-> 0 ]]
            /\ lastDone' = FALSE
            /\ UNCHANGED completed
       ELSE /\ completed' = Append(completed, NextScanId)
            /\ lastDone' = TRUE
            /\ UNCHANGED scan
    /\ UNCHANGED << available_mics, current_mic_index, uiQueue, cbScan, seen >>
    /\ ScanFrame

\* line 169: old_available_mic_indices_names = set(self.available_mics)
scan_old(t) ==
    /\ scan[t].pc = "old"
    /\ scan' = [scan EXCEPT ![t].old = MicSet(available_mics), ![t].pc = "clear"]
    /\ lastDone' = FALSE
    /\ UNCHANGED << available_mics, current_mic_index, uiQueue, cbScan, completed, seen >>
    /\ ScanFrame

\* line 171: self.available_mics = []
scan_clear(t) ==
    /\ scan[t].pc = "clear"
    /\ available_mics' = <<>>
    /\ scan' = [scan EXCEPT ![t].pc = IF Len(scan[t].devices) = 0 THEN "select"
                                                                   ELSE "append"]
    /\ lastDone' = FALSE
    /\ UNCHANGED << current_mic_index, uiQueue, cbScan, completed, seen >>
    /\ ScanFrame

\* lines 173-175: one turn of the loop; an input device is appended to the list
\* self.available_mics names at that moment
scan_append(t) ==
    /\ scan[t].pc = "append"
    /\ LET i == scan[t].k
           dev == scan[t].devices[i + 1]
       IN  /\ available_mics' = IF dev.max_input_channels > 0
                                THEN Append(available_mics, << i, dev.name >>)
                                ELSE available_mics
           /\ scan' = [scan EXCEPT ![t].k = i + 1,
                                   ![t].pc = IF i + 1 = Len(scan[t].devices)
                                             THEN "select" ELSE "append"]
    /\ lastDone' = FALSE
    /\ UNCHANGED << current_mic_index, uiQueue, cbScan, completed, seen >>
    /\ ScanFrame

\* lines 184-198: the callbacks of the selection branches alone (no list has changed
\* between the two snapshots compared)
SelectionCallbacks(cur, mics, prefs) == ScanCallbacks(cur, mics, mics, prefs)

\* lines 177-198: is the selection still in the list; if not, or if there is none,
\* select the best microphone and enqueue the change callback
scan_select(t) ==
    /\ scan[t].pc = "select"
    /\ LET cbs == SelectionCallbacks(current_mic_index, available_mics, preferences)
       IN  /\ Room(Len(cbs))
           /\ uiQueue' = uiQueue \o cbs
           /\ cbScan' = cbScan \o [i \in 1..Len(cbs) |-> scan[t].id]
    /\ current_mic_index' = ScanSelection(current_mic_index, available_mics, preferences)
    /\ scan' = [scan EXCEPT ![t].pc = "list"]
    /\ lastDone' = FALSE
    /\ UNCHANGED << available_mics, completed, seen >>
    /\ ScanFrame

\* lines 200-207: compare the old set with the list as it is now, enqueue the
\* list-changed callback, and return
scan_list(t) ==
    /\ scan[t].pc = "list"
    /\ LET cbs == IF /\ scan[t].old # MicSet(available_mics)
                     /\ current_mic_index # NoneIndex
                  THEN << Callback(current_mic_index, current_mic_index, TRUE) >>
                  ELSE <<>>
       IN  /\ Room(Len(cbs))
           /\ uiQueue' = uiQueue \o cbs
           /\ cbScan' = cbScan \o [i \in 1..Len(cbs) |-> scan[t].id]
    /\ completed' = Append(completed, scan[t].id)
    /\ scan' = [scan EXCEPT ![t] = ScanIdle]
    /\ lastDone' = TRUE
    /\ UNCHANGED << available_mics, current_mic_index, seen >>
    /\ ScanFrame

\* the run loop, when the main thread is not inside a handler, performs the oldest
\* callback
scan_deliver ==
    /\ scan["main"].pc = "idle"
    /\ uiQueue # <<>>
    /\ uiQueue' = Tail(uiQueue)
    /\ cbScan' = Tail(cbScan)
    /\ on_microphone_changed
    /\ lastDone' = FALSE
    /\ UNCHANGED << osVars, call, pipeVars, available_mics, recVars, mainVars, hkVars,
                    scan, completed, seen >>

\* a thread outside scan_devices reads self.available_mics (verify_microphone
\* line 287, get_best_microphone_index line 223, get_microphone_name line 260);
\* the first such read is followed
read_snapshot(t) ==
    /\ scan[t].pc = "idle"
    /\ seen = NotRead
    /\ seen' = available_mics
    /\ lastDone' = FALSE
    /\ UNCHANGED << available_mics, current_mic_index, uiQueue, cbScan, completed, scan >>
    /\ ScanFrame

ScanNext ==
    \/ \E t \in Scanners, queryOk \in BOOLEAN : scan_query(t, queryOk)
    \/ \E t \in Scanners : scan_old(t)
    \/ \E t \in Scanners : scan_clear(t)
    \/ \E t \in Scanners : scan_append(t)
    \/ \E t \in Scanners : scan_select(t)
    \/ \E t \in Scanners : scan_list(t)
    \/ scan_deliver
    \/ \E t \in Scanners : read_snapshot(t)

ScanSpec == ScanInit /\ [][ScanNext]_vars

(* ------------------------------------------------------------------ *)
(* The record -> transcribe -> paste pipeline: the listener thread     *)
(* starts and stops recordings, the PortAudio thread buffers audio,    *)
(* and every recording that holds audio is given a thread of its own   *)
(* (_transcribe_and_paste_thread).  The process keeps running, the     *)
(* device list stays as it is, and os.remove of a file the thread was  *)
(* given succeeds.                                                     *)
(* ------------------------------------------------------------------ *)

\* what transcribe_audio can meet (lines 1150-1181): text on stdout, empty stdout,
\* FileNotFoundError, CalledProcessError, TimeoutExpired
EngineOutcomes == { "text", "empty", "not_found", "non_zero_exit", "timeout" }

\* AppHelper.callAfter(self.paste_text, converted_text)
Paste ==
    [kind |-> "paste_text", old |-> NoneIndex, new |-> NoneIndex, list_changed |-> FALSE]

\* what transcribe_audio returns: the text, or None for every other outcome
TranscribedText(outcome) == IF outcome = "text" THEN "text" ELSE "None"

\* a thread that hands over whatever the engine printed, nothing included
OutcomeCallbacksPastesEmpty(outcome) ==
    CASE outcome \in { "text", "empty" } -> << Paste >>
      [] OTHER                          -> << Alert >>

\* the callAfter entry of one engine outcome: the paste, an alert, or nothing
OutcomeCallbacks(outcome) ==
    CASE outcome = "text"  -> << Paste >>
      [] outcome = "empty" -> <<>>
      [] OTHER             -> << Alert >>

PipeInit ==
    /\ Init
    /\ osDevices = << Dev(MacBookMic, 1), Dev(YetiX, 1), Dev(AirPodsPro, 1) >>

\* audio_callback (lines 920-925), on the PortAudio thread of the open stream: the
\* chunk is buffered while is_recording is set
audio_callback ==
    /\ stream # NoneIndex
    /\ is_recording
    /\ recorded_data < MaxChunks
    /\ recorded_data' = recorded_data + 1
    /\ UNCHANGED << osVars, call, scanHist, tasks, temp_files, available_mics, selVars,
                    recVars, uiQueue, mainVars, hkVars >>

\* a thread whose failure leaves the method at once, past the clean-up
transcribe_and_paste_thread_no_finally(i, outcome) ==
    /\ i \in DOMAIN tasks
    /\ tasks[i].pc = "transcribe"
    /\ Room(Len(OutcomeCallbacks(outcome)))
    /\ uiQueue' = uiQueue \o OutcomeCallbacks(outcome)
    /\ tasks' = [tasks EXCEPT ![i].pc = IF outcome = "text" THEN "finally"
                                                            ELSE "finished",
                              ![i].transcribed_text =
                                  IF outcome = "text" THEN "text" ELSE "unset"]
    /\ UNCHANGED << osVars, call, scanHist, recorded_data, temp_files, available_mics,
                    selVars, recVars, mainVars, hkVars >>

\* _transcribe_and_paste_thread, the try block (lines 1271-1281): transcribe_audio
\* returns the text, which is converted and handed to the main thread for pasting,
\* or returns None, after an alert for every failure but empty output
transcribe_and_paste_thread(i, outcome) ==
    /\ i \in DOMAIN tasks
    /\ tasks[i].pc = "transcribe"
    /\ Room(Len(OutcomeCallbacks(outcome)))
    /\ uiQueue' = uiQueue \o OutcomeCallbacks(outcome)
    /\ tasks' = [tasks EXCEPT ![i].transcribed_text = TranscribedText(outcome),
                              ![i].pc = "finally"]
    /\ UNCHANGED << osVars, call, scanHist, recorded_data, temp_files, available_mics,
                    selVars, recVars, mainVars, hkVars >>

\* _transcribe_and_paste_thread, the finally block (lines 1282-1298): the
\* temporary file is removed and the thread ends, its locals with it
\* (timer_paused_by_recording is never set, so no timer restart is enqueued)
transcribe_thread_finally(i) ==
    /\ i \in DOMAIN tasks
    /\ tasks[i].pc = "finally"
    /\ temp_files' = temp_files \ { tasks[i].file }
    /\ tasks' = [tasks EXCEPT ![i].pc = "finished", ![i].transcribed_text = "unset"]
    /\ UNCHANGED << osVars, call, scanHist, recorded_data, available_mics, selVars,
                    recVars, uiQueue, mainVars, hkVars >>

\* one step of the transcription thread of recording i
TaskStep(i) ==
    \/ \E outcome \in EngineOutcomes : transcribe_and_paste_thread(i, outcome)
    \/ transcribe_thread_finally(i)

PipeNext ==
    \/ ListenerStep
    \/ audio_callback
    \/ \E i \in 1..MaxTasks : TaskStep(i)
    \/ RunCallback

PipeSpec == PipeInit /\ [][PipeNext]_vars

\* every started thread is scheduled: subprocess.run is bounded by its timeout
\* (line 1153) and nothing else in the thread waits
PipeLive == PipeSpec /\ \A i \in 1..MaxTasks : WF_vars(TaskStep(i))

(* ------------------------------------------------------------------ *)
(* Properties of get_best_microphone_index (SelSpec)                   *)
(* ------------------------------------------------------------------ *)

\* a call has been observed
Called == call.result # NoneIndex

\* the highest score of the observed call's scored list
TopScore == MaxOver({ call.scored[i][3] : i \in DOMAIN call.scored })

\* the positions of the scored list that hold the highest score
Tied == { i \in DOMAIN call.scored : call.scored[i][3] = TopScore }

\* the characters in code-point order, and the order of two names as strings
CharOrder == << " " >> \o UpperChars \o LowerChars

Ord(c) == CHOOSE i \in DOMAIN CharOrder : CharOrder[i] = c

NameLess(a, b) ==
    LET x == Chars(a)
        y == Chars(b)
    IN  \E k \in 1..(Len(x) + 1) :
            /\ \A i \in 1..(k - 1) : i <= Len(y) /\ x[i] = y[i]
            /\ \/ k = Len(x) + 1 /\ Len(y) >= k
               \/ k <= Len(x) /\ k <= Len(y) /\ Ord(x[k]) < Ord(y[k])

Remaining == MicIndices(available_mics) \ call.exclude

\* the priorities of the rules whose pattern is in the lower-cased name
MatchingPriorities(name) ==
    { q[2] : q \in { r \in preferences : IsSubstring(r[1], Lower(Chars(name))) } }

\* the largest element of a non-empty set of integers
Largest(S) == CHOOSE m \in S : \A x \in S : x <= m

\* C12: if no non-excluded device matches any rule, the result is the first
\* non-excluded device in the snapshot's enumeration order.
C12_NoMatchSelectsFirstInOrder ==
    ( /\ Called
      /\ Remaining # {}
      /\ \A i \in DOMAIN available_mics :
            available_mics[i][1] \in Remaining
            => MatchingPriorities(available_mics[i][2]) = {} )
    => \E k \in DOMAIN available_mics :
          /\ call.result = available_mics[k][1]
          /\ available_mics[k][1] \in Remaining
          /\ \A j \in 1..(k - 1) : available_mics[j][1] \notin Remaining

\* C12, reached: rules exist but match none of the two or more remaining devices,
\* the first device of the snapshot is excluded, and a later one is returned
C12_NoMatchAfterExclusion ==
    /\ Called
    /\ preferences # {}
    /\ Cardinality(Remaining) > 1
    /\ available_mics[1][1] \in call.exclude
    /\ \A i \in DOMAIN call.scored : MatchingPriorities(call.scored[i][2]) = {}
    /\ call.result \in Remaining

\* C13: if exactly one non-excluded device has the strictly highest score, it is
\* the result, whatever its name and position.
C13_UniqueTopScoreSelected ==
    Called
    => \A i \in DOMAIN call.scored :
          ( \A j \in DOMAIN call.scored \ { i } :
                call.scored[j][3] < call.scored[i][3] )
          => call.result = call.scored[i][1]

\* C13, reached: yeti=10, airpods=5 over [MacBook Mic, Yeti X, AirPods Pro] with
\* no exclusion returns index 1
C13_ScenarioSelectsYeti ==
    /\ available_mics = << <<0, MacBookMic>>, <<1, YetiX>>, <<2, AirPodsPro>> >>
    /\ preferences = PrefYetiAirpods
    /\ Called
    /\ call.exclude = {}
    /\ call.result = 1

\* C14: the result is never an excluded index: it is a non-excluded index of the
\* snapshot or -1, and it is -1 exactly when no non-excluded device remains.
C14_ResultNeverExcluded ==
    Called
    => /\ call.result \in Remaining \cup { NoDevice }
       /\ call.result = NoDevice <=> Remaining = {}

\* C14, reached: the device that wins without exclusion is excluded and another
\* one is returned
C14_BestExcludedOtherReturned ==
    /\ Called
    /\ get_best_microphone_index(available_mics, preferences, {}) \in call.exclude
    /\ call.result \in Remaining

NewSnapshot == InputMics(osDevices, 0)

\* C17: a successful scan that finds the selection unset, or set but absent from
\* the new snapshot, sets it to get_best_microphone_index over the new snapshot
\* with no exclusion.
C17_LostOrUnsetSelectionReselected ==
    [][ ( /\ scan_devices(TRUE)
          /\ \/ current_mic_index = NoneIndex
             \/ current_mic_index \notin MicIndices(NewSnapshot) )
        => /\ available_mics' = NewSnapshot
           /\ current_mic_index' =
                 get_best_microphone_index(NewSnapshot, preferences, {}) ]_vars

\* C17, reached: index 1 was selected and has disappeared, the candidates are
\* [0, 2] under yeti=10, airpods=5, and the scan has selected index 2
C17_ScenarioReselectsAirPods ==
    /\ preferences = PrefYetiAirpods
    /\ available_mics = << <<0, MacBookMic>>, <<2, AirPodsPro>> >>
    /\ current_mic_index = 2
    /\ \E k \in DOMAIN uiQueue : uiQueue[k].old = 1 /\ uiQueue[k].new = 2

\* the selected device is in the snapshot and gone from the OS list
SelectedDeviceDisappeared ==
    /\ current_mic_index \in MicIndices(available_mics)
    /\ current_mic_index \notin MicIndices(NewSnapshot)

\* C18 (as stated): when the selected device has disappeared, the scan's
\* notification of the selection change (old, new) has its list-changed flag true.
C18_SelectionChangeCarriesListChanged ==
    [][ ( scan_devices(TRUE) /\ SelectedDeviceDisappeared )
        => \E k \in (Len(uiQueue) + 1)..Len(uiQueue') :
              uiQueue'[k] = Callback(current_mic_index, current_mic_index', TRUE)
      ]_vars

\* C18 (amended): when the selected device has disappeared, the scan enqueues two
\* notifications: (old, new) with the list-changed flag false, then (new, new)
\* with the list-changed flag true.
C18_SelectionChangeThenListChanged ==
    [][ ( scan_devices(TRUE) /\ SelectedDeviceDisappeared )
        => uiQueue' = uiQueue \o
              << Callback(current_mic_index, current_mic_index', FALSE),
                 Callback(current_mic_index', current_mic_index', TRUE) >> ]_vars

\* C18, reached: index 1 has disappeared and the scan's two notifications are
\* queued: old=1, new=2, then new=2 with the list-changed flag
C18_ScenarioNotificationsQueued ==
    /\ current_mic_index = 2
    /\ 1 \notin MicIndices(available_mics)
    /\ uiQueue = << Callback(1, 2, FALSE), Callback(2, 2, TRUE) >>

\* C19: a successful scan that changes the selection, or whose device set differs
\* from the previous snapshot's, enqueues at least one change notification.
C19_ChangeIsNotified ==
    [][ ( /\ scan_devices(TRUE)
          /\ \/ current_mic_index' # current_mic_index
             \/ MicSet(available_mics') # MicSet(available_mics) )
        => /\ Len(uiQueue') > Len(uiQueue)
           /\ uiQueue'[Len(uiQueue')].kind = "on_microphone_changed" ]_vars

\* C19, reached: a scan found another device set with the selection still there
\* (it is not the device a reselection would pick), and its only notification,
\* the list-changed one, is queued
C19_ListChangeAloneNotified ==
    /\ current_mic_index \in MicIndices(available_mics)
    /\ current_mic_index # get_best_microphone_index(available_mics, preferences, {})
    /\ uiQueue = << Callback(current_mic_index, current_mic_index, TRUE) >>

\* C20: a scan whose snapshot equals the previous one and that leaves the selection
\* as it was enqueues no notification, whatever the selection is (an index, unset,
\* or -1).
C20_NoOpScanIsSilent ==
    [][ ( /\ scan_devices(TRUE)
          /\ available_mics' = available_mics
          /\ current_mic_index' = current_mic_index )
        => uiQueue' = uiQueue ]_vars

(* ------------------------------------------------------------------ *)
(* Properties of overlapping scans (ScanSpec)                          *)
(* ------------------------------------------------------------------ *)

\* scan a has returned, and scan b had not returned by then
CompletedBefore(a, b) ==
    \E i \in DOMAIN completed :
        /\ completed[i] = a
        /\ \A j \in DOMAIN completed : completed[j] = b => i < j

\* C21: notifications are delivered in scan-completion order: no notification
\* waits in the queue behind a notification of a scan that returned later
\* than its own scan did.
C21_DeliveredInCompletionOrder ==
    \A i, j \in DOMAIN cbScan :
        ( i < j /\ cbScan[i] # cbScan[j] ) => ~CompletedBefore(cbScan[j], cbScan[i])

\* C22: scan requests are rate-limited: a request that arrives when a scan has
\* just returned (no thread has taken a step since, so no part of a cooldown
\* window has passed) is dropped: it performs no device query and changes no
\* state.
C22_RequestAfterScanIsDropped ==
    [][ ( /\ lastDone
          /\ \E t \in Scanners, queryOk \in BOOLEAN : scan_query(t, queryOk) )
        => UNCHANGED << scan, completed, available_mics, current_mic_index,
                        uiQueue >> ]_vars

\* the scan of thread u has emptied the list (line 171) and has not returned yet
Rebuilding(u) == scan[u].pc \in { "append", "select", "list" }

\* C23: a scan is atomic for observers: whatever a thread reads of available_mics
\* while another thread's scan is rebuilding it is either the complete previous
\* snapshot or the complete new one, never an empty or partly rebuilt list.
C23_ReaderSeesCompleteSnapshot ==
    [][ \A t \in Scanners :
          read_snapshot(t) =>
             \A u \in Scanners :
                Rebuilding(u) =>
                   /\ MicSet(seen') \in { scan[u].old,
                                          MicSet(InputMics(scan[u].devices, 0)) }
                   /\ Len(seen') = Cardinality(MicSet(seen')) ]_vars

(* ------------------------------------------------------------------ *)
(* Properties of the app (Spec), continued                             *)
(* ------------------------------------------------------------------ *)

\* C24: every change of the selection is written to the config store: once the
\* queued callbacks have run and no handler is in progress, the persisted
\* device_index equals the app's device_index.
C24_PersistedIndexFollowsSelection ==
    ( uiQueue = <<>> /\ mainPc = "idle" /\ hkPc = "idle" )
        => cfg_device_index = device_index

\* C26: when the snapshot holds no input device, start_recording opens no stream:
\* it returns not recording, with no stream, and has enqueued an alert.
C26_NoDeviceNoOpen ==
    [][ ( start_recording_verify /\ available_mics = <<>> )
        => /\ hkPc' = "idle"
           /\ uiQueue' = Append(uiQueue, Alert)
           /\ ~is_recording'
           /\ stream' = NoneIndex ]_vars

\* C26, reached: the forced scan of start_recording has found no input device and
\* the verification is about to run
C26_VerifyWithEmptySnapshot ==
    /\ hkPc = "verify"
    /\ available_mics = <<>>
    /\ osDevices = <<>>
    /\ Room(1)

\* C27: system_will_sleep stops the periodic timer and changes neither the
\* selection nor the snapshot, and from then until the next wake (while the
\* app's timer is not alive) no timer-driven scan runs.
C27_NoTimerScanWhileAsleep ==
    [][ /\ system_will_sleep
            => /\ ~timer_alive'
               /\ scan_timers' = 0
               /\ UNCHANGED << current_mic_index, device_index, cfg_device_index,
                               available_mics >>
        /\ ( \E queryOk \in BOOLEAN : MainScanReturn("timer", queryOk) )
            => timer_alive ]_vars

\* C27, reached: the system is asleep, the device list has changed since the last
\* scan, and no scan is running
C27_AsleepOverStaleSnapshot ==
    /\ ~timer_alive
    /\ mainPc = "idle"
    /\ MicSet(InputMics(osDevices, 0)) # MicSet(available_mics)

\* C28: system_did_wake runs a scan at once (a successful query replaces the
\* snapshot by the OS list of that moment) and leaves exactly one periodic timer
\* running, whether the timer had been suspended or was still running.
C28_WakeScansAndLeavesOneTimer ==
    [][ \A queryOk \in BOOLEAN :
          MainScanReturn("wake", queryOk)
            => /\ queryOk => available_mics' = InputMics(osDevices, 0)
               /\ timer_alive'
               /\ scan_timers' = 1 ]_vars

\* C28, reached: a handler's scan is in flight while the timer is suspended (the
\* wake handler is one of those that can be returning)
C28_ScanInFlightTimerSuspended ==
    /\ mainPc = "scan"
    /\ ~timer_alive
    /\ scan_timers = 0

(* ------------------------------------------------------------------ *)
(* Properties of the pipeline (PipeSpec, PipeLive)                     *)
(* ------------------------------------------------------------------ *)

\* C25: stop_recording on a recording whose buffer is empty gives the absent
\* result and no error: the session is idle, the stream is stopped and released,
\* no alert is enqueued, and no transcription thread or temporary file is created.
C25_EmptyRecordingIsNotTranscribed ==
    [][ ( on_release /\ recorded_data = 0 )
        => /\ ~is_recording'
           /\ stream' = NoneIndex
           /\ hkPc' = "idle"
           /\ UNCHANGED << tasks, temp_files, uiQueue >> ]_vars

\* C25, reached: a recording that has buffered nothing is running, after an
\* earlier one that held audio
C25_RecordingWithEmptyBuffer ==
    /\ is_recording
    /\ stream # NoneIndex
    /\ recorded_data = 0
    /\ hkPc = "idle"
    /\ tasks # <<>>

\* C29: every transcription thread that is started finishes and removes its
\* temporary file, whatever the outcome of the engine.
C29_TaskFinishesAndRemovesFile ==
    \A i \in 1..MaxTasks :
        ( i \in DOMAIN tasks )
            ~> ( /\ i \in DOMAIN tasks
                 /\ tasks[i].pc = "finished"
                 /\ tasks[i].file \notin temp_files )

\* C29, reached: the engine call of a started thread has failed (no text), its
\* file still exists, and an earlier thread has finished and removed its own
C29_FailedTaskBeforeCleanUp ==
    /\ Len(tasks) = 2
    /\ tasks[1].pc = "finished"
    /\ tasks[1].file \notin temp_files
    /\ tasks[2].transcribed_text = "None"
    /\ tasks[2].pc = "finally"
    /\ tasks[2].file \in temp_files

\* C30: a release never waits for a transcription: the handler returns to the
\* listener, every earlier thread is left as it was, and a thread started for this
\* recording works on a file of its own.
C30_ReleaseDoesNotWaitForTranscription ==
    [][ on_release
        => /\ hkPc' = "idle"
           /\ Len(tasks') >= Len(tasks)
           /\ SubSeq(tasks', 1, Len(tasks)) = tasks
           /\ \A i \in DOMAIN tasks' \ DOMAIN tasks :
                 /\ tasks'[i].file \notin temp_files
                 /\ \A j \in DOMAIN tasks : tasks[j].file # tasks'[i].file ]_vars

\* C30, reached: a second recording was started and stopped while the thread of
\* the first was still in flight, and a third is running with both in flight
C30_RecordingWhileTwoTasksInFlight ==
    /\ Len(tasks) = 2
    /\ tasks[1].pc # "finished"
    /\ tasks[2].pc # "finished"
    /\ is_recording

(* ------------------------------------------------------------------ *)
(* Properties of the recording session (Spec)                          *)
(* ------------------------------------------------------------------ *)

\* C31: the capture stream is owned by the recording session alone: at most one
\* stream is open at any time and it is the one the session holds, is_recording is
\* set only while a started stream is held, and when the session is not recording
\* (after stop_recording, after any failed start_recording) no stream is left open.
C31_StreamOwnedByRecordingSession ==
    /\ open_streams <= 1
    /\ open_streams = IF stream # NoneIndex THEN 1 ELSE 0
    /\ is_recording => stream # NoneIndex
    /\ ~is_recording => stream = NoneIndex /\ open_streams = 0

\* C31, reached: the open on the fallback device has failed as well, after an
\* earlier failed open in the same start_recording; nothing is open
C31_SecondOpenFailed ==
    /\ hkPc = "except"
    /\ hkRetry = 1
    /\ openAttempts = 2
    /\ stream = NoneIndex
    /\ open_streams = 0

\* C32: every start_recording returns: retry_count never exceeds MAX_RETRIES, and
\* whatever the device layer does (the list it reports, queries and opens that
\* succeed or raise) a call in progress is followed by the listener being back
\* outside it, recording or not.
C32_BeginTerminates ==
    /\ [](hkRetry <= MAX_RETRIES)
    /\ (hkPc # "idle") ~> (hkPc = "idle")

\* C32, reached: the second recursive call has been entered with retry_count at
\* the bound, after two device-related failures
C32_RetryBoundReached ==
    /\ hkPc = "begin"
    /\ hkRetry = MAX_RETRIES
    /\ ~is_recording

(* ------------------------------------------------------------------ *)
(* Properties of scan_devices (MgrSpec), continued                     *)
(* ------------------------------------------------------------------ *)

\* the name the snapshot gives for an index it holds
NameAt(mics, index) == mics[CHOOSE i \in DOMAIN mics : mics[i][1] = index][2]

\* C33: a scan leaves the selection alone while the selected index is in the new
\* snapshot, whatever else the snapshot holds; a scan changes the selection only
\* when it was unset or is absent from the new snapshot.
C33_PresentSelectionIsKept ==
    [][ \A queryOk \in BOOLEAN :
          scan_devices(queryOk) =>
             /\ ( queryOk /\ current_mic_index \in MicIndices(NewSnapshot) )
                   => current_mic_index' = current_mic_index
             /\ current_mic_index' # current_mic_index
                   => /\ queryOk
                      /\ \/ current_mic_index = NoneIndex
                         \/ current_mic_index \notin MicIndices(NewSnapshot) ]_vars

\* C33, reached: a scan has found a changed list in which a device scores higher
\* than the selected one, and the selection is still the lower-scoring device
C33_HigherScoringDeviceNotSelected ==
    /\ available_mics = NewSnapshot
    /\ current_mic_index \in MicIndices(available_mics)
    /\ uiQueue # <<>>
    /\ uiQueue[Len(uiQueue)] = Callback(current_mic_index, current_mic_index, TRUE)
    /\ \E i \in DOMAIN available_mics :
          ScoreOf(available_mics[i][2], preferences)
             > ScoreOf(NameAt(available_mics, current_mic_index), preferences)

(* ------------------------------------------------------------------ *)
(* The troubleshooting script against the app (SelSpec)                *)
(* ------------------------------------------------------------------ *)

\* C34: for every snapshot that holds a microphone and every preference map, the
\* first entry of score_microphones (the script's "BEST CHOICE", main lines 91-94)
\* is the device get_best_microphone_index returns with no exclusion, also when
\* every score is 0.
C34_ScriptPredictsSelection ==
    ( Called /\ call.exclude = {} /\ available_mics # <<>> )
    => score_microphones(available_mics, preferences)[1][1] = call.result

\* C34, reached: rules exist, every one of two or more microphones scores 0, and
\* the app has returned the first entry of the script's ranking
C34_AllScoresZeroWithRules ==
    /\ Called
    /\ call.exclude = {}
    /\ Len(available_mics) > 1
    /\ preferences # {}
    /\ \A i \in DOMAIN call.scored : call.scored[i][3] = 0
    /\ \E i \in DOMAIN call.scored : MatchingPriorities(call.scored[i][2]) # {}
    /\ call.result = score_microphones(available_mics, preferences)[1][1]

(* ------------------------------------------------------------------ *)
(* Properties of the pipeline (PipeSpec), continued                    *)
(* ------------------------------------------------------------------ *)

\* the paste_text calls waiting in a queue
PasteCount(q) == Cardinality({ k \in DOMAIN q : q[k].kind = "paste_text" })

\* C35: a paste is handed over only by the thread of a recording that was stopped
\* with audio and saved, at the moment its transcription has returned text, and
\* once for it; a release (empty recording, failed save, or a thread just started)
\* and a transcription that fails, times out or prints nothing hand over no paste.
C35_PasteOnlyAfterTranscribedText ==
    [][ /\ PasteCount(uiQueue') > PasteCount(uiQueue)
           => \E i \in DOMAIN tasks :
                 /\ transcribe_and_paste_thread(i, "text")
                 /\ tasks'[i].transcribed_text = "text"
                 /\ PasteCount(uiQueue') = PasteCount(uiQueue) + 1
        /\ on_release => PasteCount(uiQueue') = PasteCount(uiQueue)
        /\ \A i \in DOMAIN tasks, outcome \in EngineOutcomes \ { "text" } :
              transcribe_and_paste_thread(i, outcome)
                 => PasteCount(uiQueue') = PasteCount(uiQueue) ]_vars

\* C35, reached: the text of the first recording waits to be pasted, the thread of
\* the second got no text, and a third recording is running
C35_PasteQueuedSecondFailed ==
    /\ PasteCount(uiQueue) = 1
    /\ Len(tasks) = 2
    /\ tasks[1].transcribed_text = "text"
    /\ tasks[2].transcribed_text = "None"
    /\ is_recording

(* ------------------------------------------------------------------ *)
(* Properties of the app (Spec): alerts and the two selection copies   *)
(* ------------------------------------------------------------------ *)

\* the blocking alerts waiting in a queue
AlertCount(q) == Cardinality({ k \in DOMAIN q : q[k].kind = "alert" })

C37_SelectionInSnapshotAfterScan ==
    [][ \A t \in Scanners :
          scan_list(t) =>
             LET snapshot == InputMics(scan[t].devices, 0)
             IN  /\ current_mic_index' \in MicIndices(snapshot) \cup { NoDevice }
                 /\ current_mic_index' = NoDevice => snapshot = <<>> ]_vars

\* C38: the two copies of the selection agree at rest: whenever no handler and no
\* start_recording is in progress and every queued callback has run, the app's
\* device_index equals the manager's current_mic_index.
C38_SelectionCopiesAgreeAtRest ==
    ( uiQueue = <<>> /\ mainPc = "idle" /\ hkPc = "idle" )
        => device_index = current_mic_index

(* ------------------------------------------------------------------ *)
(* Recovery from a hot-unplug                                           *)
(* ------------------------------------------------------------------ *)

\* C39: with the timer firing and the queries succeeding, a selection that has
\* disappeared from the OS list while the OS still offers an input device leads
\* to a selection that is in the OS list, unless the OS runs out of input devices.
C39_LostSelectionRecovered ==
    ( /\ current_mic_index # NoneIndex
      /\ current_mic_index \notin MicIndices(NewSnapshot)
      /\ NewSnapshot # <<>> )
    ~> ( \/ current_mic_index \in MicIndices(NewSnapshot)
         \/ NewSnapshot = <<>> )

\* C39, reached: the selected device of the last snapshot is gone from the OS list,
\* another input device is there, and no scan has run since
C39_SelectedDeviceUnplugged ==
    /\ SelectedDeviceDisappeared
    /\ NewSnapshot # <<>>
    /\ mainPc = "idle"
    /\ uiQueue = <<>>

(* ------------------------------------------------------------------ *)
(* The recovery path and the devices that failed                        *)
(* ------------------------------------------------------------------ *)

\* C40: within one start_recording(), neither the switch after a failed
\* verification nor the fallback after a failed open makes current, or writes to
\* the config, a device whose open has already failed in it.
C40_RecoveryAvoidsEveryFailedDevice ==
    [][ ( /\ hkPc \in { "verify", "fallback" }
          /\ hkPc' \in { "open", "begin" }
          /\ current_mic_index' # current_mic_index )
        => /\ current_mic_index' \notin hkTried
           /\ cfg_device_index' \notin hkTried ]_vars

====
